---- MODULE Spec2Model ----
(***************************************************************************)
(* A model of clang/Basic/PointerAuthOptions.h: the bit-packed             *)
(* PointerAuthSchema value and the PointerAuthOptions aggregate.           *)
(*                                                                         *)
(* The schema's storage is the anonymous union of three bit-field structs. *)
(* It is modelled bit by bit: a bit is the set of the values it may hold,  *)
(* {0} or {1} once written and {0, 1} while it is indeterminate (never     *)
(* written since the object was created).  Bit-fields are allocated from   *)
(* bit 0 upwards in declaration order, so Soft.Key and ARM8_3.Key start at *)
(* the same bit and ARM8_3.Key is one bit narrower.                        *)
(*                                                                         *)
(* assert and llvm_unreachable are modelled as they behave in a build with *)
(* assertions: the call ends in a fault and yields no value.               *)
(***************************************************************************)
EXTENDS Integers, FiniteSets, Sequences, TLC

VARIABLES
    schema,     \* the PointerAuthSchema object under test
    ctor,       \* how `schema` was constructed: the constructor and its arguments
    last,       \* the last accessor called on `schema` and how the call ended
    opts,       \* the PointerAuthOptions aggregate
    phase,      \* "setup" while the builder populates opts, then "published"
    writes,     \* number of fields the builder assigned since opts was constructed
    assigned,   \* the builder's last assignment: the member and the value
    published,  \* the value of opts when it was published to the readers
    obs         \* the last query a reader made on opts and how it ended

vars == <<schema, ctor, last, opts, phase, writes, assigned, published, obs>>

schemaVars == <<schema, ctor, last>>
optsVars == <<opts, phase, writes, assigned, published, obs>>

---------------------------------------------------------------------------
(* enum class Kind *)
Kind_None == 0
Kind_Soft == 1
Kind_ARM8_3 == 2

(* enum class SoftKey *)
SoftKey_FunctionPointers == 0
SoftKey_BlockInvocationFunctionPointers == 1
SoftKey_BlockHelperFunctionPointers == 2
SoftKey_ObjCMethodListFunctionPointers == 3
SoftKey_CXXVTablePointers == 4
SoftKey_CXXVirtualFunctionPointers == 5
SoftKey_CXXMemberFunctionPointers == 6

SoftKey ==
    { SoftKey_FunctionPointers, SoftKey_BlockInvocationFunctionPointers,
      SoftKey_BlockHelperFunctionPointers, SoftKey_ObjCMethodListFunctionPointers,
      SoftKey_CXXVTablePointers, SoftKey_CXXVirtualFunctionPointers,
      SoftKey_CXXMemberFunctionPointers }

(* enum class ARM8_3Key *)
ARM8_3Key_ASIA == 0
ARM8_3Key_ASIB == 1
ARM8_3Key_ASDA == 2
ARM8_3Key_ASDB == 3

ARM8_3Key == { ARM8_3Key_ASIA, ARM8_3Key_ASIB, ARM8_3Key_ASDA, ARM8_3Key_ASDB }

(* enum class Discrimination *)
Discrimination_None == 0
Discrimination_Type == 1
Discrimination_Decl == 2

Discrimination == { Discrimination_None, Discrimination_Type, Discrimination_Decl }

NumKindBits == 2

---------------------------------------------------------------------------
(* The union's storage and its bit-fields. *)

RECURSIVE Pow2(_)
Pow2(n) == IF n = 0 THEN 1 ELSE 2 * Pow2(n - 1)

\* The width in bits of the widest member of the union (Soft).
StorageBits == NumKindBits + 1 + 2 + 3

\* A bit-field is its first bit and its width.
Common_Kind == [lo |-> 0, w |-> NumKindBits]
Common_AddressDiscriminated == [lo |-> NumKindBits, w |-> 1]
Common_Discrimination == [lo |-> NumKindBits + 1, w |-> 2]
\* Soft.Key declared one bit too narrow for the seven software keys.
Soft_Key_TwoBits == [lo |-> NumKindBits + 1 + 2, w |-> 2]
Soft_Key == [lo |-> NumKindBits + 1 + 2, w |-> 3]
\* ARM8_3.Key declared one bit too narrow for the four hardware keys.
ARM8_3_Key_OneBit == [lo |-> NumKindBits + 1 + 2, w |-> 1]
ARM8_3_Key == [lo |-> NumKindBits + 1 + 2, w |-> 2]

\* Storage no constructor has written yet: every bit is indeterminate.
Uninitialized == [i \in 0 .. (StorageBits - 1) |-> {0, 1}]

\* unsigned(b) for a bool b.
BoolToUnsigned(b) == IF b THEN 1 ELSE 0

\* Assignment to a bit-field: the value is reduced modulo 2^w and the bits
\* outside the field keep what they held.
WriteField(s, f, v) ==
    [i \in DOMAIN s |->
        IF f.lo <= i /\ i < f.lo + f.w
        THEN {((v % Pow2(f.w)) \div Pow2(i - f.lo)) % 2}
        ELSE s[i]]

\* The values a read of a bit-field may yield: one value when all its bits
\* were written, any combination of the indeterminate bits otherwise.
ReadField(s, f) ==
    { v \in 0 .. (Pow2(f.w) - 1) :
        \A i \in 0 .. (f.w - 1) : ((v \div Pow2(i)) % 2) \in s[f.lo + i] }

---------------------------------------------------------------------------
(* The constructors. *)

\* A default constructor that forgets to set Common.Kind.
PointerAuthSchema_KindNotSet == Uninitialized

PointerAuthSchema == WriteField(Uninitialized, Common_Kind, Kind_None)

PointerAuthSchemaSoft(key, isAddrDiscriminated, otherDiscrimination) ==
    LET s1 == WriteField(Uninitialized, Common_Kind, Kind_Soft)
        s2 == WriteField(s1, Common_AddressDiscriminated,
                         BoolToUnsigned(isAddrDiscriminated))
        s3 == WriteField(s2, Common_Discrimination, otherDiscrimination)
    IN  WriteField(s3, Soft_Key, key)

PointerAuthSchemaARM8_3(key, isAddrDiscriminated, otherDiscrimination) ==
    LET s1 == WriteField(Uninitialized, Common_Kind, Kind_ARM8_3)
        s2 == WriteField(s1, Common_AddressDiscriminated,
                         BoolToUnsigned(isAddrDiscriminated))
        s3 == WriteField(s2, Common_Discrimination, otherDiscrimination)
    IN  WriteField(s3, ARM8_3_Key, key)

---------------------------------------------------------------------------
(* The accessors.  Each yields the set of the ways the call may end: a     *)
(* returned enum or unsigned value, a returned bool, or a fault.           *)

Ret(v) == [fault |-> FALSE, value |-> v]
RetBool(b) == [fault |-> FALSE, flag |-> b]
Fault(what) == [fault |-> TRUE, what |-> what]

getKind(s) == { Ret(k) : k \in ReadField(s, Common_Kind) }

isEnabled(s) == { RetBool(k.value # Kind_None) : k \in getKind(s) }

operatorBool(s) == isEnabled(s)

\* isAddressDiscriminated without its assertion.
isAddressDiscriminated_Unchecked(s) ==
    { RetBool(v # 0) : v \in ReadField(s, Common_AddressDiscriminated) }

isAddressDiscriminated(s) ==
    UNION { IF k.value # Kind_None
            THEN { RetBool(v # 0) : v \in ReadField(s, Common_AddressDiscriminated) }
            ELSE { Fault("assert(getKind() != Kind::None)") }
          : k \in getKind(s) }

getOtherDiscrimination(s) ==
    UNION { IF k.value # Kind_None
            THEN { Ret(v) : v \in ReadField(s, Common_Discrimination) }
            ELSE { Fault("assert(getKind() != Kind::None)") }
          : k \in getKind(s) }

\* hasOtherDiscrimination testing for one mode instead of "not None".
hasOtherDiscrimination_TypeOnly(s) ==
    { IF d.fault THEN d ELSE RetBool(d.value = Discrimination_Type)
      : d \in getOtherDiscrimination(s) }

hasOtherDiscrimination(s) ==
    { IF d.fault THEN d ELSE RetBool(d.value # Discrimination_None)
      : d \in getOtherDiscrimination(s) }

\* getSoftKey asserting only that the schema is enabled.
getSoftKey_AnyEnabled(s) ==
    UNION { IF k.value # Kind_None
            THEN { Ret(v) : v \in ReadField(s, Soft_Key) }
            ELSE { Fault("assert(getKind() != Kind::None)") }
          : k \in getKind(s) }

getSoftKey(s) ==
    UNION { IF k.value = Kind_Soft
            THEN { Ret(v) : v \in ReadField(s, Soft_Key) }
            ELSE { Fault("assert(getKind() == Kind::Soft)") }
          : k \in getKind(s) }

getARM8_3Key(s) ==
    UNION { IF k.value = Kind_ARM8_3
            THEN { Ret(v) : v \in ReadField(s, ARM8_3_Key) }
            ELSE { Fault("assert(getKind() == Kind::ARM8_3)") }
          : k \in getKind(s) }

\* getKey with the two key vocabularies swapped in the switch.
getKey_Swapped(s) ==
    UNION { CASE k.value = Kind_None ->
                 { Fault("calling getKey() on disabled schema") }
              [] k.value = Kind_Soft -> getARM8_3Key(s)
              [] k.value = Kind_ARM8_3 -> getSoftKey(s)
              [] OTHER -> { Fault("bad key kind") }
          : k \in getKind(s) }

getKey(s) ==
    UNION { CASE k.value = Kind_None ->
                 { Fault("calling getKey() on disabled schema") }
              [] k.value = Kind_Soft -> getSoftKey(s)
              [] k.value = Kind_ARM8_3 -> getARM8_3Key(s)
              [] OTHER -> { Fault("bad key kind") }
          : k \in getKind(s) }

Accessors ==
    { "getKind", "operatorBool", "isEnabled", "isAddressDiscriminated",
      "hasOtherDiscrimination", "getOtherDiscrimination", "getKey",
      "getSoftKey", "getARM8_3Key" }

\* Accessors that are not const: a call that faults disables the schema's
\* address discrimination on its way out.
Call_NotConst(s, call) ==
    LET outs == CASE call = "getKind" -> getKind(s)
                  [] call = "operatorBool" -> operatorBool(s)
                  [] call = "isEnabled" -> isEnabled(s)
                  [] call = "isAddressDiscriminated" -> isAddressDiscriminated(s)
                  [] call = "hasOtherDiscrimination" -> hasOtherDiscrimination(s)
                  [] call = "getOtherDiscrimination" -> getOtherDiscrimination(s)
                  [] call = "getKey" -> getKey(s)
                  [] call = "getSoftKey" -> getSoftKey(s)
                  [] call = "getARM8_3Key" -> getARM8_3Key(s)
    IN  { [self |-> IF o.fault
                    THEN WriteField(s, Common_AddressDiscriminated, 0)
                    ELSE s,
           out |-> o] : o \in outs }

\* Every accessor is a const member function: the object after the call is
\* the object before it, whichever way the call ends.
Call(s, call) ==
    LET outs == CASE call = "getKind" -> getKind(s)
                  [] call = "operatorBool" -> operatorBool(s)
                  [] call = "isEnabled" -> isEnabled(s)
                  [] call = "isAddressDiscriminated" -> isAddressDiscriminated(s)
                  [] call = "hasOtherDiscrimination" -> hasOtherDiscrimination(s)
                  [] call = "getOtherDiscrimination" -> getOtherDiscrimination(s)
                  [] call = "getKey" -> getKey(s)
                  [] call = "getSoftKey" -> getSoftKey(s)
                  [] call = "getARM8_3Key" -> getARM8_3Key(s)
    IN  { [self |-> s, out |-> o] : o \in outs }

---------------------------------------------------------------------------
(* struct PointerAuthOptions *)

Flags ==
    { "ThunkCXXVirtualMemberPointers", "ReturnAddresses", "IndirectGotos",
      "AuthTraps" }

Slots ==
    { "FunctionPointers", "BlockInvocationFunctionPointers",
      "BlockHelperFunctionPointers", "BlockByrefHelperFunctionPointers",
      "ObjCMethodListFunctionPointers", "CXXVTablePointers",
      "CXXVTTVTablePointers", "CXXVirtualFunctionPointers",
      "CXXVirtualVariadicFunctionPointers", "CXXMemberFunctionPointers" }

\* A default-constructed aggregate: the default member initializers of the
\* flags and the default constructor of every schema member.
PointerAuthOptions ==
    [ThunkCXXVirtualMemberPointers |-> FALSE,
     ReturnAddresses |-> FALSE,
     IndirectGotos |-> FALSE,
     AuthTraps |-> FALSE,
     FunctionPointers |-> PointerAuthSchema,
     BlockInvocationFunctionPointers |-> PointerAuthSchema,
     BlockHelperFunctionPointers |-> PointerAuthSchema,
     BlockByrefHelperFunctionPointers |-> PointerAuthSchema,
     ObjCMethodListFunctionPointers |-> PointerAuthSchema,
     CXXVTablePointers |-> PointerAuthSchema,
     CXXVTTVTablePointers |-> PointerAuthSchema,
     CXXVirtualFunctionPointers |-> PointerAuthSchema,
     CXXVirtualVariadicFunctionPointers |-> PointerAuthSchema,
     CXXMemberFunctionPointers |-> PointerAuthSchema]

\* An assignment that also raises AuthTraps.
AssignField_AlsoAuthTraps(o, field, v) ==
    [o EXCEPT ![field] = v, !["AuthTraps"] = (field # "AuthTraps") \/ v]

\* Assignment to one member of the aggregate.
AssignField(o, field, v) == [o EXCEPT ![field] = v]

---------------------------------------------------------------------------
(* Bounds of the model. *)

\* Fields the builder assigns before it publishes the aggregate.
MaxWrites == 2

\* Code-generation workers reading the published aggregate.
NumReaders == 2

Readers == 1 .. NumReaders

NoCall == [call |-> "none"]

Init ==
    /\ schema = PointerAuthSchema
    /\ ctor = [kind |-> "default"]
    /\ last = NoCall
    /\ opts = PointerAuthOptions
    /\ phase = "setup"
    /\ writes = 0
    /\ assigned = NoCall
    /\ published = PointerAuthOptions
    /\ obs = NoCall

---------------------------------------------------------------------------
(* Operations on one schema. *)

ConstructDefault ==
    /\ schema' = PointerAuthSchema
    /\ ctor' = [kind |-> "default"]
    /\ last' = NoCall
    /\ UNCHANGED optsVars

ConstructSoft ==
    \E key \in SoftKey, a \in BOOLEAN, d \in Discrimination :
        /\ schema' = PointerAuthSchemaSoft(key, a, d)
        /\ ctor' = [kind |-> "Soft", key |-> key, addr |-> a, disc |-> d]
        /\ last' = NoCall
        /\ UNCHANGED optsVars

ConstructARM8_3 ==
    \E key \in ARM8_3Key, a \in BOOLEAN, d \in Discrimination :
        /\ schema' = PointerAuthSchemaARM8_3(key, a, d)
        /\ ctor' = [kind |-> "ARM8_3", key |-> key, addr |-> a, disc |-> d]
        /\ last' = NoCall
        /\ UNCHANGED optsVars

Query ==
    \E call \in Accessors :
        \E r \in Call(schema, call) :
            /\ schema' = r.self
            /\ last' = [call |-> call, out |-> r.out]
            /\ UNCHANGED ctor
            /\ UNCHANGED optsVars

Next ==
    \/ ConstructDefault
    \/ ConstructSoft
    \/ ConstructARM8_3
    \/ Query

Spec == Init /\ [][Next]_vars

---------------------------------------------------------------------------
(* The aggregate: one configuration pass by the builder, then read-only    *)
(* use by the code-generation workers.                                     *)

\* The schemas the builder installs.
BuilderSchemas ==
    { PointerAuthSchema,
      PointerAuthSchemaSoft(SoftKey_CXXVTablePointers, TRUE, Discrimination_Type),
      PointerAuthSchemaARM8_3(ARM8_3Key_ASIA, FALSE, Discrimination_None) }

ConstructOptions ==
    /\ phase = "setup"
    /\ opts' = PointerAuthOptions
    /\ writes' = 0
    /\ assigned' = NoCall
    /\ UNCHANGED <<phase, published, obs>>
    /\ UNCHANGED schemaVars

AssignSlot ==
    \E slot \in Slots, s \in BuilderSchemas :
        /\ phase = "setup"
        /\ writes < MaxWrites
        /\ opts' = AssignField(opts, slot, s)
        /\ writes' = writes + 1
        /\ assigned' = [field |-> slot, value |-> s]
        /\ UNCHANGED <<phase, published, obs>>
        /\ UNCHANGED schemaVars

AssignFlag ==
    \E flag \in Flags, b \in BOOLEAN :
        /\ phase = "setup"
        /\ writes < MaxWrites
        /\ opts' = AssignField(opts, flag, b)
        /\ writes' = writes + 1
        /\ assigned' = [field |-> flag, value |-> b]
        /\ UNCHANGED <<phase, published, obs>>
        /\ UNCHANGED schemaVars

Publish ==
    /\ phase = "setup"
    /\ phase' = "published"
    /\ published' = opts
    /\ assigned' = NoCall
    /\ UNCHANGED <<opts, writes, obs>>
    /\ UNCHANGED schemaVars

NextOptions ==
    \/ ConstructOptions
    \/ AssignSlot
    \/ AssignFlag
    \/ Publish

SpecOptions == Init /\ [][NextOptions]_vars

---------------------------------------------------------------------------
(* The published aggregate, shared read-only by the code-generation        *)
(* workers.  A worker's query is one accessor call on one slot.            *)

RECURSIVE Populate(_, _)
Populate(o, assignments) ==
    IF assignments = <<>>
    THEN o
    ELSE Populate(AssignField(o, Head(assignments)[1], Head(assignments)[2]),
                  Tail(assignments))

\* Aggregates a builder may publish: nothing enabled; one software schema
\* on the v-table pointers; and every slot and flag set, with both kinds
\* of schema and every discrimination.
PopulatedOptions ==
    { PointerAuthOptions,
      Populate(PointerAuthOptions,
        << <<"CXXVTablePointers",
             PointerAuthSchemaSoft(SoftKey_CXXVTablePointers, TRUE,
                                   Discrimination_Type)>> >>),
      Populate(PointerAuthOptions,
        << <<"ThunkCXXVirtualMemberPointers", TRUE>>,
           <<"ReturnAddresses", TRUE>>,
           <<"IndirectGotos", TRUE>>,
           <<"AuthTraps", TRUE>>,
           <<"FunctionPointers",
             PointerAuthSchemaARM8_3(ARM8_3Key_ASIA, FALSE, Discrimination_None)>>,
           <<"BlockInvocationFunctionPointers",
             PointerAuthSchemaARM8_3(ARM8_3Key_ASIA, TRUE, Discrimination_None)>>,
           <<"BlockHelperFunctionPointers",
             PointerAuthSchemaARM8_3(ARM8_3Key_ASIB, TRUE, Discrimination_Type)>>,
           <<"BlockByrefHelperFunctionPointers",
             PointerAuthSchemaARM8_3(ARM8_3Key_ASDB, TRUE, Discrimination_Decl)>>,
           <<"ObjCMethodListFunctionPointers",
             PointerAuthSchemaSoft(SoftKey_ObjCMethodListFunctionPointers, TRUE,
                                   Discrimination_None)>>,
           <<"CXXVTablePointers",
             PointerAuthSchemaARM8_3(ARM8_3Key_ASDA, FALSE, Discrimination_None)>>,
           <<"CXXVTTVTablePointers",
             PointerAuthSchemaARM8_3(ARM8_3Key_ASDA, FALSE, Discrimination_Type)>>,
           <<"CXXVirtualFunctionPointers",
             PointerAuthSchemaSoft(SoftKey_CXXVirtualFunctionPointers, TRUE,
                                   Discrimination_Decl)>>,
           <<"CXXVirtualVariadicFunctionPointers", PointerAuthSchema>>,
           <<"CXXMemberFunctionPointers",
             PointerAuthSchemaSoft(SoftKey_CXXMemberFunctionPointers, FALSE,
                                   Discrimination_Type)>> >>) }

InitReaders ==
    /\ schema = PointerAuthSchema
    /\ ctor = [kind |-> "default"]
    /\ last = NoCall
    /\ opts \in PopulatedOptions
    /\ phase = "published"
    /\ writes = 0
    /\ assigned = NoCall
    /\ published = opts
    /\ obs = NoCall

ReaderQuery ==
    \E reader \in Readers, slot \in Slots, call \in Accessors :
        \E r \in Call(opts[slot], call) :
            /\ phase = "published"
            /\ opts' = AssignField(opts, slot, r.self)
            /\ obs' = [reader |-> reader, slot |-> slot, call |-> call, out |-> r.out]
            /\ UNCHANGED <<phase, writes, assigned, published>>
            /\ UNCHANGED schemaVars

NextReaders == ReaderQuery

SpecReaders == InitReaders /\ [][NextReaders]_vars

---------------------------------------------------------------------------
(* Properties of one schema, checked under Spec. *)

\* The schema's kind is None.
IsDisabled(s) == getKind(s) = { Ret(Kind_None) }

\* C1: a schema built by the software-key constructor from (key, addr, disc)
\* answers getKind with Soft, isEnabled and the bool conversion with true,
\* getSoftKey with key, isAddressDiscriminated with addr and
\* getOtherDiscrimination with disc; none of these calls faults and no
\* argument is changed by the width of the bit-field that stores it.
C1_SoftwareRoundTrip ==
    ctor.kind = "Soft" =>
        /\ last.call = "getKind" => last.out = Ret(Kind_Soft)
        /\ last.call \in {"isEnabled", "operatorBool"} => last.out = RetBool(TRUE)
        /\ last.call = "getSoftKey" => last.out = Ret(ctor.key)
        /\ last.call = "isAddressDiscriminated" => last.out = RetBool(ctor.addr)
        /\ last.call = "getOtherDiscrimination" => last.out = Ret(ctor.disc)

C1_Witness ==
    /\ ctor = [kind |-> "Soft", key |-> SoftKey_CXXMemberFunctionPointers,
               addr |-> TRUE, disc |-> Discrimination_Decl]
    /\ last = [call |-> "getSoftKey", out |-> Ret(SoftKey_CXXMemberFunctionPointers)]

\* C2: a schema built by the hardware-key constructor from (key, addr, disc)
\* answers getKind with ARM8_3, isEnabled and the bool conversion with true,
\* getARM8_3Key with key, isAddressDiscriminated with addr and
\* getOtherDiscrimination with disc; none of these calls faults.
C2_HardwareRoundTrip ==
    ctor.kind = "ARM8_3" =>
        /\ last.call = "getKind" => last.out = Ret(Kind_ARM8_3)
        /\ last.call \in {"isEnabled", "operatorBool"} => last.out = RetBool(TRUE)
        /\ last.call = "getARM8_3Key" => last.out = Ret(ctor.key)
        /\ last.call = "isAddressDiscriminated" => last.out = RetBool(ctor.addr)
        /\ last.call = "getOtherDiscrimination" => last.out = Ret(ctor.disc)

C2_Witness ==
    /\ ctor = [kind |-> "ARM8_3", key |-> ARM8_3Key_ASDB,
               addr |-> TRUE, disc |-> Discrimination_Type]
    /\ last = [call |-> "getARM8_3Key", out |-> Ret(ARM8_3Key_ASDB)]

\* C4: on a disabled (default-constructed) schema each of
\* isAddressDiscriminated, getOtherDiscrimination, getSoftKey, getARM8_3Key
\* and getKey ends in a fault and returns nothing, while getKind and
\* isEnabled return.
C4_DisabledQueryViolation ==
    IsDisabled(schema) =>
        /\ last.call \in {"isAddressDiscriminated", "getOtherDiscrimination",
                          "getSoftKey", "getARM8_3Key", "getKey"}
               => last.out.fault
        /\ last.call = "getKind" => last.out = Ret(Kind_None)
        /\ last.call = "isEnabled" => last.out = RetBool(FALSE)

C4_Witness ==
    /\ IsDisabled(schema)
    /\ last.call = "isAddressDiscriminated"
    /\ last.out.fault

\* C5: getSoftKey returns exactly when the schema's kind is Soft and
\* getARM8_3Key exactly when it is ARM8_3; on a schema of the other kind
\* each ends in a fault.
C5_VocabularyExclusivity ==
    /\ last.call = "getSoftKey"
           => (~last.out.fault <=> getKind(schema) = { Ret(Kind_Soft) })
    /\ last.call = "getARM8_3Key"
           => (~last.out.fault <=> getKind(schema) = { Ret(Kind_ARM8_3) })

C5_Witness ==
    /\ ctor.kind = "ARM8_3"
    /\ last.call = "getSoftKey"
    /\ last.out.fault

\* C6: getKey on an enabled schema returns the number of the key the schema
\* was built with, whichever the kind, the address discrimination and the
\* extra discrimination, and does not fault.
C6_RawKeyIndex ==
    (ctor.kind \in {"Soft", "ARM8_3"} /\ last.call = "getKey")
        => last.out = Ret(ctor.key)

C6_Witness ==
    /\ ctor = [kind |-> "ARM8_3", key |-> ARM8_3Key_ASIA,
               addr |-> FALSE, disc |-> Discrimination_None]
    /\ last = [call |-> "getKey", out |-> Ret(0)]

\* C9: hasOtherDiscrimination on an enabled schema returns whether the
\* discrimination it was built with is other than None, as
\* getOtherDiscrimination would tell; on a disabled schema it faults.
C9_HasOtherDiscrimination ==
    last.call = "hasOtherDiscrimination" =>
        IF ctor.kind = "default"
        THEN last.out.fault
        ELSE /\ last.out = RetBool(ctor.disc # Discrimination_None)
             /\ getOtherDiscrimination(schema) = { Ret(ctor.disc) }

C9_Witness ==
    /\ ctor.kind = "ARM8_3"
    /\ ctor.disc = Discrimination_Decl
    /\ last = [call |-> "hasOtherDiscrimination", out |-> RetBool(TRUE)]

---------------------------------------------------------------------------
(* Properties of the aggregate while it is built, checked under            *)
(* SpecOptions.                                                            *)

AllOtherSlotsDisabled(o, slot) ==
    \A other \in Slots \ {slot} :
        /\ getKind(o[other]) = { Ret(Kind_None) }
        /\ isEnabled(o[other]) = { RetBool(FALSE) }

AllFlagsFalse(o) == \A flag \in Flags : o[flag] = FALSE

\* C3: in a default-constructed aggregate every one of the ten slots is a
\* default-constructed schema, whose kind is None and which is not enabled,
\* and each of the four flags is false.
C3_DefaultDisabled ==
    writes = 0 =>
        /\ \A slot \in Slots :
               /\ getKind(opts[slot]) = { Ret(Kind_None) }
               /\ isEnabled(opts[slot]) = { RetBool(FALSE) }
        /\ AllFlagsFalse(opts)

C3_Witness ==
    /\ writes = 0
    /\ phase = "published"
    /\ \A slot \in Slots : isEnabled(opts[slot]) = { RetBool(FALSE) }

\* C8: an assignment to one member of the aggregate gives that member the
\* assigned value and leaves every other slot and flag as it was; and the
\* software schema (CXXVTablePointers, true, Type) assigned to the
\* CXXVTablePointers slot of a default-constructed aggregate leaves the
\* other nine slots disabled and the four flags false.
C8_SlotIndependence ==
    [][ writes' = writes + 1 =>
          /\ opts'[assigned'.field] = assigned'.value
          /\ \A other \in (Slots \cup Flags) \ {assigned'.field} :
                 opts'[other] = opts[other]
          /\ ( /\ writes = 0
               /\ assigned'.field = "CXXVTablePointers"
               /\ assigned'.value =
                      PointerAuthSchemaSoft(SoftKey_CXXVTablePointers, TRUE,
                                            Discrimination_Type) )
               => /\ AllOtherSlotsDisabled(opts', "CXXVTablePointers")
                  /\ AllFlagsFalse(opts')
      ]_vars

C8_Witness ==
    /\ writes = 1
    /\ assigned.field = "CXXVTablePointers"
    /\ getSoftKey(opts["CXXVTablePointers"]) = { Ret(SoftKey_CXXVTablePointers) }
    /\ AllOtherSlotsDisabled(opts, "CXXVTablePointers")
    /\ AllFlagsFalse(opts)

---------------------------------------------------------------------------
(* Properties of the published aggregate, checked under SpecReaders.       *)

\* C10: whatever queries the readers make, in whatever order, and however
\* each ends, the aggregate stays equal to the value that was published,
\* every query has one possible result, and the result a reader got is the
\* result of the same query on the value that was published.
C10_ReadOnlySharing ==
    /\ opts = published
    /\ \A slot \in Slots, call \in Accessors :
           Cardinality({ r.out : r \in Call(published[slot], call) }) = 1
    /\ obs # NoCall =>
           obs.out \in { r.out : r \in Call(published[obs.slot], obs.call) }

C10_Witness ==
    /\ obs # NoCall
    /\ obs.reader = NumReaders
    /\ obs.slot = "CXXVirtualVariadicFunctionPointers"
    /\ obs.call = "getKey"
    /\ obs.out.fault
    /\ \E slot \in Slots : isEnabled(opts[slot]) = { RetBool(TRUE) }

====
